---- MODULE Spec2Model ----
(***************************************************************************)
(* State-machine model of py2origin (src/py2origin/__init__.py).           *)
(*                                                                         *)
(* Three exporters and one helper are modelled, each call as a short       *)
(* sequence of steps over the destination objects it drives:               *)
(*   - matplotlib_to_origin  (figure -> worksheet columns + graph plots)   *)
(*   - numpy_to_origin       (array  -> worksheet columns + metadata)      *)
(*   - createGraph_multiwks  (worksheets -> grouped plots of one layer)    *)
(*   - get_sheets_from_book  (workbook references -> worksheets)           *)
(* The destination (Origin) is modelled by the objects the code writes:    *)
(* the calls received by the worksheet, the graph layer and the session.   *)
(***************************************************************************)
EXTENDS Integers, Sequences, FiniteSets, TLC

VARIABLES
    \* ---- matplotlib_to_origin ----
    mpl_pc,      \* "idle" | "loop" | "axes" | "page" | "done" | "raised"
    ax,          \* the source axes: artists in the order they were added
    lines,       \* the list built at lines 204-205: (line, container) pairs
    li,          \* position of the for loop of line 208 in `lines` (1-based)
    next_idx,    \* next free worksheet column (line 207)
    wks,         \* from_list calls received by the worksheet, in order
    gl_plots,    \* plots of the graph layer, in add order
    gl_log,      \* calls received by the graph layer / session, in order
    gl_lim,      \* x and y limits of the destination layer
    mpl_err,     \* "" or the exception that left the call
    warned,      \* positions of `lines` a warning was issued for
    ax_view,     \* scales and limits of the source axes as read at lines
                 \* 367-371 ("unread" before)
    \* ---- numpy_to_origin ----
    np_pc,       \* "idle" | "loop" | "done" | "raised"
    books,       \* the session's workbooks: name -> sheets (<< >> = absent)
    np_in,       \* arguments of the running call
    np_created,  \* the call created the workbook (layer_idx = 0 at line 455)
    layer_idx,   \* 0-based index of the sheet the call works on
    col_idx,     \* loop variable of line 469
    np_log,      \* calls the running call has sent to the session, in order
    np_err,      \* "" or the exception that left the call
    np_calls,    \* number of calls started on this session
    np_before,   \* history: `books` when the running call started
    np_hist,     \* history: per workbook name, calls made with that name
    np_template, \* sheets a workbook created from the 'Origin' template has
    \* ---- createGraph_multiwks ----
    g_pc,        \* "idle" | "loop" | "post" | "done" | "raised"
    g_in,        \* arguments of the call
    g_x,         \* x_cols after lines 549-559
    g_y,         \* y_cols after lines 549-559
    g_los,       \* LineOrSym after lines 561-564
    g_ci,        \* loop variable ci of line 571
    g_plots,     \* data plots of the graph layer, in plot-index order
    g_groups,    \* 'layer -g Begin End' commands sent, in order
    g_log,       \* other commands sent to the layer, in order
    g_err,       \* "" or the exception that left the call
    g_pre,       \* plots the layer held when the call began
    \* ---- get_sheets_from_book ----
    h_pc,        \* "idle" | "loop" | "done" | "raised"
    h_books,     \* the session's workbooks: name -> number of worksheets
                 \* (0 = no workbook of that name)
    h_arg,       \* the `workbooks` argument of the call
    h_list,      \* wb_list of lines 98-101
    h_i,         \* position of the for loop of line 105 in wb_list (1-based)
    h_out,       \* the list `worksheets`
    h_ret,       \* "" | "None" | "list": what the call returned
    h_log,       \* messages printed and workbooks read, in order
    h_err        \* "" or the exception that left the call

mplVars == <<mpl_pc, ax, lines, li, next_idx, wks, gl_plots, gl_log, gl_lim,
             mpl_err, warned, ax_view>>

npVars == <<np_pc, books, np_in, np_created, layer_idx, col_idx, np_log,
            np_err, np_calls, np_before, np_hist, np_template>>

gVars == <<g_pc, g_in, g_x, g_y, g_los, g_ci, g_plots, g_groups, g_log,
           g_err, g_pre>>

hVars == <<h_pc, h_books, h_arg, h_list, h_i, h_out, h_ret, h_log, h_err>>

vars == <<mplVars, npVars, gVars, hVars>>

-----------------------------------------------------------------------------
(* Bounds *)

\* most artists (plain lines and containers) on one source axes
MaxSeries == 2

\* largest extent of one array dimension
MaxDim == 2

\* most numpy_to_origin calls on one session
MaxCalls == 3

\* most sheets of a workbook made from the session's 'Origin' template
MaxNewSheets == 2

\* longest x_cols / y_cols / LineOrSym list of createGraph_multiwks
MaxCols == 2

\* most worksheets passed to createGraph_multiwks
MaxWks == 2

\* most plots an existing graph layer holds before createGraph_multiwks
MaxPrePlots == 1

\* most worksheets of a workbook read by get_sheets_from_book
MaxLayers == 2

\* longest list of workbook references passed to get_sheets_from_book
MaxWbList == 2

-----------------------------------------------------------------------------
(* Generic helpers *)

\* dict.get(k, default)
DictGet(d, k, default) == IF k \in DOMAIN d THEN d[k] ELSE default

Range(s) == {s[k] : k \in 1..Len(s)}

RECURSIVE Flatten(_)
Flatten(ss) == IF ss = <<>> THEN <<>> ELSE Head(ss) \o Flatten(Tail(ss))

RECURSIVE SumSeq(_)
SumSeq(s) == IF s = <<>> THEN 0 ELSE Head(s) + SumSeq(Tail(s))

SeqsUpTo(S, n) == UNION {[1..k -> S] : k \in 0..n}

-----------------------------------------------------------------------------
(* matplotlib_to_origin: the source figure *)

\* Values plt.getp(line, 'marker') can return.  'None' is matplotlib's "no
\* marker"; 'o' is a key of mpl_sym_conv; '.' (point) is a valid matplotlib
\* marker that is not a key of mpl_sym_conv.
Markers == {"None", "o", "."}

\* Values plt.getp(line, 'linestyle') can return.  'None' is "draw nothing"
\* and is not a key of mpl_line_conv.
LineStyles == {"-", "--", "None"}

\* One artist added to the axes.  kind "line" is a plain Line2D (ax.plot),
\* "errorbar" an ErrorbarContainer (ax.errorbar), "other" any other container
\* (e.g. BarContainer, StemContainer: no .lines attribute; or a user container
\* that has one).  marker/linestyle are those of the artist's data line.
Artists ==
    [kind : {"line", "errorbar"}, marker : Markers, linestyle : LineStyles,
     hasLines : {TRUE}]
    \cup
    [kind : {"other"}, marker : {"None"}, linestyle : {"-"},
     hasLines : BOOLEAN]

IsContainer(a) == a.kind # "line"

\* ax.lines: every Line2D of the axes in add order.  A Line2D is named by the
\* artist that owns it and its role there; an errorbar adds its data line and
\* its two cap lines.
AxLines(axes) ==
    Flatten([a \in 1..Len(axes) |->
        CASE axes[a].kind = "line" -> << [owner |-> a, role |-> "data"] >>
          [] axes[a].kind = "errorbar" ->
                << [owner |-> a, role |-> "data"],
                   [owner |-> a, role |-> "caplo"],
                   [owner |-> a, role |-> "caphi"] >>
          [] OTHER ->
                IF axes[a].hasLines
                THEN << [owner |-> a, role |-> "data"] >> ELSE << >>])

\* ax.containers: the containers in add order (by artist position)
AxContainers(axes) ==
    SelectSeq([a \in 1..Len(axes) |-> a], LAMBDA a : IsContainer(axes[a]))

\* lines 200-201: every child of every container
contaienr_childeren(axes) ==
    {l \in Range(AxLines(axes)) : IsContainer(axes[l.owner])}

\* lines 204-205.  An entry is (src, container): src is the artist whose data
\* line is exported, container is 0 for None or the container's artist.
ExtractLinesMutDiscovery(axes) ==
    [a \in 1..Len(axes) |->
        [src |-> a, container |-> IF IsContainer(axes[a]) THEN a ELSE 0]]

ExtractLines(axes) ==
    LET plain == SelectSeq(AxLines(axes),
                           LAMBDA l : l \notin contaienr_childeren(axes))
        conts == AxContainers(axes)
    IN  [k \in 1..Len(plain) |-> [src |-> plain[k].owner, container |-> 0]]
        \o
        [k \in 1..Len(conts) |-> [src |-> conts[k], container |-> conts[k]]]

\* line 205 evaluates container.lines[0] for every container: a container
\* without a .lines attribute raises AttributeError there
ExtractLinesRaises(axes) ==
    \E a \in 1..Len(axes) : IsContainer(axes[a]) /\ ~axes[a].hasLines

-----------------------------------------------------------------------------
(* matplotlib_to_origin: style translation, lines 289-355 *)

mpl_sym_conv ==
    ("s" :> "1") @@ ("o" :> "2") @@ ("^" :> "3") @@ ("v" :> "4") @@
    ("D" :> "5") @@ ("+" :> "6") @@ ("x" :> "7") @@ ("*" :> "8") @@
    ("_" :> "9") @@ ("|" :> "10") @@ ("h" :> "17") @@ ("p" :> "19")

mpl_line_conv ==
    ("-" :> "0") @@ ("--" :> "1") @@ (":" :> "2") @@ ("-." :> "3")

\* the branch taken at lines 297 / 313 / 333: the type given to add_plot
PlotKind(marker, linestyle) ==
    IF marker = "None" THEN "l"
    ELSE IF linestyle = "None" THEN "s"
    ELSE "y"

\* line 346 subscripts mpl_sym_conv instead of using .get: KeyError
StyleRaises(marker, linestyle) ==
    PlotKind(marker, linestyle) = "y" /\ marker \notin DOMAIN mpl_sym_conv

\* the '-k' (symbol type) argument of set_cmd; "" when the branch sends none
SymCode(marker, linestyle) ==
    CASE PlotKind(marker, linestyle) = "l" -> ""
      [] PlotKind(marker, linestyle) = "s" -> DictGet(mpl_sym_conv, marker, "0")
      [] OTHER -> mpl_sym_conv[marker]

\* the '-d' (line style) argument of set_cmd; "" when the branch sends none
DashCode(marker, linestyle) ==
    IF PlotKind(marker, linestyle) = "l"
    THEN DictGet(mpl_line_conv, linestyle, "0") ELSE ""

-----------------------------------------------------------------------------
(* matplotlib_to_origin: column bookkeeping, lines 218-247 *)

\* which branch of lines 218 / 228 / 245 an entry of `lines` takes
SeriesKind(axes, e) ==
    IF e.container = 0 THEN "line"
    ELSE IF axes[e.container].kind = "errorbar" THEN "errorbar"
    ELSE "unknown"

\* columns consumed: next_idx += 2 (line 226), += 3 (line 237), none (247)
ColsConsumedMutTwo(kind) == IF kind = "unknown" THEN 0 ELSE 2

ColsConsumed(kind) ==
    CASE kind = "line" -> 2
      [] kind = "errorbar" -> 3
      [] OTHER -> 0

\* yerr_col_idx: -1 (line 225) or next_idx + 2 (line 236)
YerrCol(kind, n) == IF kind = "errorbar" THEN n + 2 ELSE -1

\* the from_list calls of lines 250-271 for one series
FromListCalls(kind, n, pos) ==
    << [col |-> n, axis |-> "X", pos |-> pos],
       [col |-> n + 1, axis |-> "Y", pos |-> pos] >>
    \o (IF kind = "errorbar"
        THEN << [col |-> YerrCol(kind, n), axis |-> "E", pos |-> pos] >>
        ELSE << >>)

-----------------------------------------------------------------------------
(* matplotlib_to_origin: the call *)

MplInit ==
    /\ mpl_pc = "idle"
    /\ ax = << >>
    /\ lines = << >>
    /\ li = 1
    /\ next_idx = 0
    /\ wks = << >>
    /\ gl_plots = << >>
    /\ gl_log = << >>
    /\ gl_lim = [x |-> "template", y |-> "template"]
    /\ mpl_err = ""
    /\ warned = {}
    /\ ax_view = [xscale |-> "unread", yscale |-> "unread",
                  xlim |-> "unread", ylim |-> "unread"]

\* lines 178-179: origin == SkipSave returns at once, nothing is touched
matplotlib_to_origin_skip ==
    /\ mpl_pc = "idle"
    /\ mpl_pc' = "done"
    /\ gl_log' = << "return SkipSave" >>
    /\ UNCHANGED <<ax, lines, li, next_idx, wks, gl_plots, gl_lim, mpl_err,
                   warned>>
    /\ UNCHANGED ax_view
    /\ UNCHANGED <<npVars, gVars, hVars>>

\* lines 181-207: attach, make the book, sheet and graph, build `lines`
matplotlib_to_origin_enter ==
    /\ mpl_pc = "idle"
    /\ \E axes \in SeqsUpTo(Artists, MaxSeries) :
        /\ ax' = axes
        /\ gl_log' = << "new_book", "add_sheet", "new_graph" >>
        /\ IF ExtractLinesRaises(axes)
           THEN /\ mpl_pc' = "raised"
                /\ mpl_err' = "AttributeError"
                /\ UNCHANGED lines
           ELSE /\ mpl_pc' = "loop"
                /\ lines' = ExtractLines(axes)
                /\ UNCHANGED mpl_err
    /\ li' = 1
    /\ next_idx' = 0
    /\ UNCHANGED <<wks, gl_plots, gl_lim, warned>>
    /\ UNCHANGED ax_view
    /\ UNCHANGED <<npVars, gVars, hVars>>

\* lines 208-357: one iteration of the loop over `lines`
matplotlib_to_origin_series ==
    /\ mpl_pc = "loop"
    /\ li <= Len(lines)
    /\ LET e    == lines[li]
           kind == SeriesKind(ax, e)
           m    == ax[e.src].marker
           ls   == ax[e.src].linestyle
           x    == next_idx
       IN  IF kind = "unknown"
           THEN \* lines 245-247: warn and continue
                /\ warned' = warned \cup {li}
                /\ li' = li + 1
                /\ UNCHANGED <<mpl_pc, next_idx, wks, gl_plots, gl_log,
                               gl_lim, mpl_err>>
           ELSE /\ next_idx' = next_idx + ColsConsumed(kind)
                /\ wks' = wks \o FromListCalls(kind, x, li)
                /\ IF StyleRaises(m, ls)
                   THEN \* add_plot (line 334) is done, line 346 raises
                        /\ gl_plots' = Append(gl_plots,
                              [type |-> PlotKind(m, ls), coly |-> x + 1,
                               colx |-> x, colyerr |-> YerrCol(kind, x),
                               sym |-> "", dash |-> "", styled |-> FALSE,
                               pos |-> li])
                        /\ gl_log' = Append(gl_log, "add_plot")
                        /\ mpl_pc' = "raised"
                        /\ mpl_err' = "KeyError"
                        /\ UNCHANGED <<li, gl_lim>>
                   ELSE /\ gl_plots' = Append(gl_plots,
                              [type |-> PlotKind(m, ls), coly |-> x + 1,
                               colx |-> x, colyerr |-> YerrCol(kind, x),
                               sym |-> SymCode(m, ls),
                               dash |-> DashCode(m, ls), styled |-> TRUE,
                               pos |-> li])
                        /\ gl_log' = gl_log \o << "add_plot", "set_cmd",
                                                  "rescale" >>
                        /\ gl_lim' = [x |-> "auto", y |-> "auto"]
                        /\ li' = li + 1
                        /\ UNCHANGED <<mpl_pc, mpl_err>>
                /\ UNCHANGED warned
    /\ UNCHANGED <<ax, lines>>
    /\ UNCHANGED ax_view
    /\ UNCHANGED <<npVars, gVars, hVars>>

AxisScales == {"linear", "log", "symlog"}
AxisLimits == {"lim_a", "lim_b"}   \* values ax.get_xlim()/get_ylim() return

\* lines 42-58: the commands set_axis_scale sends; none for another scale
set_axis_scale(axis, scale) ==
    IF scale \in {"linear", "log"}
    THEN << "type_" \o axis \o "_" \o scale, "numFormat_" \o axis >>
    ELSE << >>

\* the source axes as lines 367-371 read them
AxViews ==
    [xscale : AxisScales, yscale : AxisScales,
     xlim : {"x" \o l : l \in AxisLimits},
     ylim : {"y" \o l : l \in AxisLimits}]

AxesCommandsMutRescaleLast(view) ==
    << "title_x", "title_y" >>
        \o set_axis_scale("x", view.xscale)
        \o set_axis_scale("y", view.yscale)
        \o << "set_xlim", "set_ylim", "rescale" >>

\* lines 379-392: the calls the layer receives after the loop, in order
AxesCommands(view) ==
    << "title_x", "title_y" >>
        \o set_axis_scale("x", view.xscale)
        \o set_axis_scale("y", view.yscale)
        \o << "set_xlim", "set_ylim" >>

\* the limits of the layer after it has received `cmds`: rescale fits both
\* axes to the data, set_xlim / set_ylim set one axis to the source's limits
RECURSIVE LayerLimits(_, _, _)
LayerLimits(lim, cmds, view) ==
    IF cmds = << >> THEN lim
    ELSE LET c == Head(cmds)
             l == CASE c = "rescale"  -> [x |-> "auto", y |-> "auto"]
                    [] c = "set_xlim" -> [lim EXCEPT !.x = view.xlim]
                    [] c = "set_ylim" -> [lim EXCEPT !.y = view.ylim]
                    [] OTHER          -> lim
         IN  LayerLimits(l, Tail(cmds), view)

\* lines 367-392: axis titles, scales and limits, after the loop
matplotlib_to_origin_axes ==
    /\ mpl_pc = "loop"
    /\ li > Len(lines)
    /\ \E view \in AxViews :
        /\ ax_view' = view
        /\ gl_log' = gl_log \o AxesCommands(view)
        /\ gl_lim' = LayerLimits(gl_lim, AxesCommands(view), view)
    /\ mpl_pc' = "page"
    /\ UNCHANGED <<ax, lines, li, next_idx, wks, gl_plots, mpl_err, warned>>
    /\ UNCHANGED <<npVars, gVars, hVars>>

\* lines 397-422: page size, legend; ax.get_legend() is None without a legend
matplotlib_to_origin_page ==
    /\ mpl_pc = "page"
    /\ \E hasLegend \in BOOLEAN :
        IF hasLegend
        THEN /\ mpl_pc' = "done"
             /\ gl_log' = gl_log \o << "page_size", "pfit2l", "legend -r",
                                       "return op" >>
             /\ UNCHANGED mpl_err
        ELSE /\ mpl_pc' = "raised"
             /\ mpl_err' = "AttributeError"
             /\ gl_log' = gl_log \o << "page_size", "pfit2l", "legend -r" >>
    /\ UNCHANGED <<ax, lines, li, next_idx, wks, gl_plots, gl_lim, warned>>
    /\ UNCHANGED ax_view
    /\ UNCHANGED <<npVars, gVars, hVars>>

-----------------------------------------------------------------------------
(* Properties of matplotlib_to_origin *)

\* columns taken by the entries of `lines` before position p, counted as the
\* specification counts them: 2 per plain line, 3 per error-bar group, 0 per
\* skipped series
SpecColsBefore(p) ==
    SumSeq([q \in 1..(p - 1) |->
        IF lines[q].container = 0 THEN 2
        ELSE IF ax[lines[q].container].kind = "errorbar" THEN 3 ELSE 0])

\* C1: within one call every plain line gets (x, y) = (n, n+1) and every
\* error-bar group (x, y, yerr) = (n, n+1, n+2), n being the number of columns
\* taken by the series processed before it; a skipped series takes none; the
\* columns written are pairwise distinct and increase in processing order.
C1_ColumnAssignment ==
    /\ \A k \in 1..Len(gl_plots) :
          LET p == gl_plots[k]
              n == SpecColsBefore(p.pos)
              cols == {w \in Range(wks) : w.pos = p.pos}
          IN  /\ p.colx = n
              /\ p.coly = n + 1
              /\ IF lines[p.pos].container = 0
                 THEN /\ p.colyerr = -1
                      /\ {w.col : w \in cols} = {n, n + 1}
                 ELSE /\ p.colyerr = n + 2
                      /\ {w.col : w \in cols} = {n, n + 1, n + 2}
    /\ \A i, j \in 1..Len(wks) : i < j => wks[i].col < wks[j].col
    /\ \A w \in Range(wks) : w.pos \notin warned

\* C1 witness: a plain line and an error-bar group, each with its columns
C1_Witness ==
    /\ Len(gl_plots) = 2
    /\ lines[gl_plots[1].pos].container = 0
    /\ lines[gl_plots[2].pos].container # 0
    /\ [k \in 1..Len(wks) |-> wks[k].col] = << 0, 1, 2, 3, 4 >>
    /\ gl_plots[2].colyerr = 4

\* C2 as claimed: series are processed in the order they were added to the
\* axes, whatever their kind (a plot added earlier never follows one added
\* later, and never has higher columns).
C2_DiscoveryOrder ==
    \A j, k \in 1..Len(gl_plots) :
        j < k => lines[gl_plots[j].pos].src < lines[gl_plots[k].pos].src

\* C2 as amended: every plain line is processed before every container, plain
\* lines among themselves in ax.lines order and containers among themselves in
\* ax.containers order; plots and columns follow that processing order.
C2_PlainLinesFirst ==
    /\ \A j, k \in 1..Len(lines) :
          j < k =>
            \/ lines[j].container = 0 /\ lines[k].container # 0
            \/ /\ (lines[j].container = 0) = (lines[k].container = 0)
               /\ lines[j].src < lines[k].src
    /\ mpl_pc \in {"loop", "axes", "page", "done"} =>
          /\ {lines[p].src : p \in 1..Len(lines)} = 1..Len(ax)
          /\ \A p \in 1..Len(lines) :
                (lines[p].container = 0) = (ax[lines[p].src].kind = "line")
    /\ \A j, k \in 1..Len(gl_plots) :
          j < k => /\ gl_plots[j].pos < gl_plots[k].pos
                   /\ gl_plots[j].colx < gl_plots[k].colx

\* C2 witness: an error-bar group added before a plain line, both exported,
\* the plain line first
C2_Witness ==
    /\ Len(ax) = 2
    /\ ax[1].kind = "errorbar"
    /\ ax[2].kind = "line"
    /\ Len(gl_plots) = 2
    /\ lines[gl_plots[1].pos].src = 2
    /\ gl_plots[1].colx = 0
    /\ gl_plots[2].colx = 2

\* C3 as claimed: a marker that is not in the marker table gives symbol type
\* '0' without failing in both branches that send a symbol type ('s' and
\* 'y'), and a dash pattern that is not in the dash table gives line code '0'.
C3_UnknownStyleDefaults ==
    \A k \in 1..Len(gl_plots) :
        LET p == gl_plots[k]
            a == ax[lines[p.pos].src]
        IN  /\ (p.type \in {"s", "y"} /\ a.marker \notin DOMAIN mpl_sym_conv)
                  => (p.styled /\ p.sym = "0")
            /\ (p.type = "l" /\ a.linestyle \notin DOMAIN mpl_line_conv)
                  => (p.styled /\ p.dash = "0")

\* C4 as claimed: every exported series gets exactly one plot, of the kind
\* given by its (marker, linestyle) pair, and no pair leads to an error.
C4_ClassificationTotal ==
    \A pos \in 1..Len(lines) :
        (\E w \in Range(wks) : w.pos = pos) =>
            LET a  == ax[lines[pos].src]
                ks == {k \in 1..Len(gl_plots) : gl_plots[k].pos = pos}
            IN  /\ Cardinality(ks) = 1
                /\ \A k \in ks :
                      /\ gl_plots[k].type =
                            (IF a.marker = "None" THEN "l"
                             ELSE IF a.linestyle = "None" THEN "s" ELSE "y")
                      /\ gl_plots[k].styled
                /\ mpl_err # "KeyError"

\* C11 as claimed: a series whose container is not an error-bar container is
\* skipped with a warning: the call does not raise because of it, it gets no
\* columns and no plot, and the other series of the axes are still exported.
C11_UnknownContainerSkipped ==
    (mpl_pc # "idle" /\ \E a \in 1..Len(ax) : ax[a].kind = "other") =>
        \* a failure of the call has another cause: the marker lookup of
        \* line 346, or the missing legend of line 416
        /\ mpl_pc = "raised" =>
              \/ mpl_err = "KeyError"
              \/ \E k \in 1..Len(gl_log) : gl_log[k] = "legend -r"
        /\ \A p \in warned :
              /\ \A w \in Range(wks) : w.pos # p
              /\ \A k \in 1..Len(gl_plots) : gl_plots[k].pos # p
        /\ mpl_pc \in {"page", "done"} =>
              \A a \in 1..Len(ax) :
                  IF ax[a].kind = "other"
                  THEN \E p \in warned : lines[p].container = a
                  ELSE \E k \in 1..Len(gl_plots) :
                          lines[gl_plots[k].pos].src = a

\* the calls that set the scale of an axis, and the one that sets its limits
ScaleCommands ==
    [axis \in {"x", "y"} |->
        {"type_" \o axis \o "_" \o sc : sc \in AxisScales}
            \cup {"numFormat_" \o axis}]
LimitCommand == [axis \in {"x", "y"} |-> "set_" \o axis \o "lim"]
AxisCommands ==
    ScaleCommands["x"] \cup ScaleCommands["y"]
        \cup {LimitCommand["x"], LimitCommand["y"]}

\* C14: the scale kind and the limits reach the layer only after all series:
\* every add_plot and every rescale precedes every scale and limit call, no
\* rescale follows a limit call, on each axis the scale is set before the
\* limits, a linear or log scale kind is sent for each axis, and when the
\* call returns the plot the layer's limits are the source axes' limits.
C14_LimitsAfterSeries ==
    LET Idx == 1..Len(gl_log)
    IN  /\ \A j \in Idx :
              gl_log[j] \in AxisCommands =>
                  \A i \in j..Len(gl_log) :
                      gl_log[i] \notin {"add_plot", "rescale"}
        /\ \A j \in Idx :
              gl_log[j] \in {LimitCommand["x"], LimitCommand["y"]} =>
                  \A i \in j..Len(gl_log) : gl_log[i] # "rescale"
        /\ \A axis \in {"x", "y"} : \A j \in Idx :
              gl_log[j] = LimitCommand[axis] =>
                  \A i \in j..Len(gl_log) :
                      gl_log[i] \notin ScaleCommands[axis]
        /\ (mpl_pc = "done" /\ gl_log[Len(gl_log)] = "return op") =>
              /\ gl_lim = [x |-> ax_view.xlim, y |-> ax_view.ylim]
              /\ ax_view.xlim # "unread" /\ ax_view.ylim # "unread"
              /\ \A axis \in {"x", "y"} :
                    \E j \in Idx : gl_log[j] = LimitCommand[axis]
              /\ Len(gl_plots) > 0 => \E i \in Idx : gl_log[i] = "rescale"
              /\ ax_view.xscale \in {"linear", "log"} =>
                    \E i \in Idx : gl_log[i] = "type_x_" \o ax_view.xscale
              /\ ax_view.yscale \in {"linear", "log"} =>
                    \E i \in Idx : gl_log[i] = "type_y_" \o ax_view.yscale

\* C14 witness: two series exported and rescaled, then a log x axis and a
\* linear y axis with their limits, and the call has returned
C14_Witness ==
    /\ mpl_pc = "done"
    /\ gl_log[Len(gl_log)] = "return op"
    /\ Len(gl_plots) = 2
    /\ ax_view = [xscale |-> "log", yscale |-> "linear",
                  xlim |-> "xlim_b", ylim |-> "ylim_a"]
    /\ gl_lim = [x |-> "xlim_b", y |-> "ylim_a"]
    /\ \E i \in 1..Len(gl_log), j \in 1..Len(gl_log) :
          gl_log[i] = "rescale" /\ gl_log[j] = "type_x_log" /\ i < j

-----------------------------------------------------------------------------
(* numpy_to_origin: arguments *)

WbNames == {"Book", "Book2"}
WsNames == {"Sheet", "Data"}

\* str.lower(), on strings held as sequences of one-character strings
UpperLetters ==
    << "A", "B", "C", "D", "E", "F", "G", "H", "I", "J", "K", "L", "M",
       "N", "O", "P", "Q", "R", "S", "T", "U", "V", "W", "X", "Y", "Z" >>
LowerLetters ==
    << "a", "b", "c", "d", "e", "f", "g", "h", "i", "j", "k", "l", "m",
       "n", "o", "p", "q", "r", "s", "t", "u", "v", "w", "x", "y", "z" >>

LowerChar(c) ==
    IF \E k \in 1..Len(UpperLetters) : UpperLetters[k] = c
    THEN LowerLetters[CHOOSE k \in 1..Len(UpperLetters) : UpperLetters[k] = c]
    ELSE c

Lower(str) == [k \in 1..Len(str) |-> LowerChar(str[k])]

\* lines 479-486
type_str_to_int ==
    (<< "x" >> :> 3) @@
    (<< "y" >> :> 0) @@
    (<< "x", "_", "e", "r", "r" >> :> 6) @@
    (<< "y", "_", "e", "r", "r" >> :> 2) @@
    (<< "l", "a", "b", "e", "l" >> :> 4) @@
    (<< "z" >> :> 5) @@
    (<< "i", "g", "n", "o", "r", "e" >> :> 1)

\* strings passed in `types`: the seven names in assorted letter case, and
\* two that are not in the vocabulary
TypeStrings ==
    { << "x" >>, << "Y" >>,
      << "X", "_", "e", "r", "r" >>, << "y", "_", "E", "R", "R" >>,
      << "L", "a", "b", "e", "l" >>, << "Z" >>,
      << "I", "G", "N", "O", "R", "E" >>,
      << "f", "o", "o" >>, << "X", "Y" >> }

\* an optional list argument: None, or a list
NoneList == [given |-> FALSE, list |-> << >>]
SomeList(l) == [given |-> TRUE, list |-> l]

\* a metadata list of n entries; entry j is the tag followed by j
MetaList(tag, n) == SomeList([k \in 1..n |-> tag \o ToString(k - 1)])

MetaLens == {0, 1, 2}

TypesLists ==
    {<< >>} \cup {<< t >> : t \in TypeStrings}
            \cup {<< << "x" >>, t >> : t \in TypeStrings}

\* shapes of data_array: 1-D, 2-D and 3-D
Shapes ==
    {<< n >> : n \in 1..MaxDim}
    \cup {<< r, c >> : r \in 1..MaxDim, c \in 1..MaxDim}
    \cup {<< n, 1, 2 >> : n \in 1..MaxDim}

\* element [r, c] of a 2-D data_array and element [i] of a 1-D one (0-based);
\* the values only have to tell the positions apart
Elem(r, c) == 10 * r + c
Elem1(i) == 100 + i

\* the None-or-list values of one metadata argument
MetaArgs(tag) == {NoneList} \cup {MetaList(tag, n) : n \in MetaLens}

\* arguments of a single detailed call
NpInputs ==
    [shape : Shapes, column_axis : {0, 1},
     long_names : MetaArgs("ln"), units : MetaArgs("un"),
     comments : MetaArgs("cm"),
     types : {NoneList} \cup {SomeList(l) : l \in TypesLists},
     workbook_name : {"Book"}, worksheet_name : {"Sheet"}]

\* arguments of the calls of a sequence of calls on one session
NpSeqInputs ==
    [shape : {<< 1, 2 >>, << 2, 1 >>}, column_axis : {0, 1},
     long_names : {NoneList}, units : {NoneList}, comments : {NoneList},
     types : {NoneList},
     workbook_name : WbNames, worksheet_name : WsNames]

ndim(inp) == Len(inp.shape)

-----------------------------------------------------------------------------
(* numpy_to_origin: the destination session *)

\* a column as the destination makes it; Type -1 is the destination's default
DefaultCol ==
    [LongName |-> "", Units |-> "", Comments |-> "", Type |-> -1,
     data |-> << >>, scalar |-> FALSE]

\* the k-th sheet of a workbook as the destination makes it
NewSheet(k) == [name |-> "Sheet" \o ToString(k), cols |-> << >>, writer |-> 0]

\* origin.CreatePage(2, name, 'Origin'): a workbook from the template
NewBook(n) == [k \in 1..n |-> NewSheet(k)]

\* ws.Name = name (line 464).  Sheet names are unique within a workbook: when
\* another sheet already has the name, the sheet keeps the name it had.
SetName(sheets, idx, name, call) ==
    [sheets EXCEPT ![idx + 1] =
        [@ EXCEPT !.name =
            IF \E k \in 1..Len(sheets) : k # idx + 1 /\ sheets[k].name = name
            THEN @ ELSE name,
         !.writer = call]]

\* ws.Cols = n (line 467): columns are dropped or added at the end
SetCols(sheets, idx, n) ==
    [sheets EXCEPT ![idx + 1] =
        [@ EXCEPT !.cols =
            [j \in 1..n |-> IF j <= Len(@) THEN @[j] ELSE DefaultCol]]]

\* the sheet '[book]name' names: the first sheet of the book with that name
SheetByName(sheets, name) ==
    CHOOSE k \in 1..Len(sheets) :
        /\ sheets[k].name = name
        /\ \A h \in 1..(k - 1) : sheets[h].name # name

\* line 462: wb.Layers.Count - 1, the sheet just appended
LayerIdxAppendedMutFirst(count) == 0

LayerIdxAppended(count) == count - 1

\* `(lst is not None) and (len(lst) > col_idx)`, lines 472-478
HasEntryMutSkipLast(lst, j) == lst.given /\ Len(lst.list) > j + 1

HasEntry(lst, j) == lst.given /\ Len(lst.list) > j

\* line 490: type_str_to_int[...] raises KeyError for a missing key
TypeLookupRaisesMutNever(str) == FALSE

TypeLookupRaises(str) == Lower(str) \notin DOMAIN type_str_to_int

\* the code written to col.Type when the lookup does not raise
TypeCode(str) == DictGet(type_str_to_int, Lower(str), -1)

\* the values of one worksheet column, lines 495-508
ColumnSliceMutSwapped(inp, j) ==
    IF inp.column_axis = 1
    THEN [c \in 1..inp.shape[2] |-> Elem(j, c - 1)]
    ELSE [r \in 1..inp.shape[1] |-> Elem(r - 1, j)]

ColumnSlice(inp, j) ==
    IF inp.column_axis = 0
    THEN [c \in 1..inp.shape[2] |-> Elem(j, c - 1)]      \* data_array[j, :]
    ELSE [r \in 1..inp.shape[1] |-> Elem(r - 1, j)]      \* data_array[:, j]

\* one entry of np_log
Call(op, col, val) == [op |-> op, col |-> col, val |-> val]

-----------------------------------------------------------------------------
(* numpy_to_origin: the call *)

NpIdle ==
    /\ np_pc = "idle"
    /\ np_in = [shape |-> << >>, column_axis |-> 0, long_names |-> NoneList,
                units |-> NoneList, comments |-> NoneList, types |-> NoneList,
                workbook_name |-> "", worksheet_name |-> ""]
    /\ np_created = FALSE
    /\ layer_idx = 0
    /\ col_idx = 0
    /\ np_log = << >>
    /\ np_err = ""
    /\ np_calls = 0
    /\ np_hist = [w \in WbNames |-> 0]

\* a session in which no workbook of WbNames exists
NpInitEmpty(templates) ==
    /\ NpIdle
    /\ np_template \in templates
    /\ books = [w \in WbNames |-> << >>]
    /\ np_before = books

\* a session in which workbook 'Book' may already exist
NpInitAny ==
    /\ NpIdle
    /\ np_template = 1
    /\ books \in {[w \in WbNames |-> << >>],
                  [w \in WbNames |-> IF w = "Book" THEN NewBook(1) ELSE << >>]}
    /\ np_before = books

\* number of worksheet columns: data_array.shape[column_axis]
NCols(inp) == inp.shape[inp.column_axis + 1]

\* lines 445-467: find or create the workbook, pick the sheet, name it, set
\* its column count.  shape[column_axis] raises IndexError when the array has
\* no such axis.
numpy_to_origin_enter(inp) ==
    /\ LET wb     == inp.workbook_name
           absent == books[wb] = << >>
           sheets == IF absent THEN NewBook(np_template)
                     ELSE Append(books[wb], NewSheet(Len(books[wb]) + 1))
           idx    == IF absent THEN 0 ELSE LayerIdxAppended(Len(sheets))
           named  == SetName(sheets, idx, inp.worksheet_name, np_calls + 1)
           noaxis == inp.column_axis >= ndim(inp)
           first  == IF absent THEN Call("CreatePage", -1, wb)
                     ELSE Call("Layers.Add", -1, wb)
       IN  /\ np_created' = absent
           /\ layer_idx' = idx
           /\ IF noaxis
              THEN /\ books' = [books EXCEPT ![wb] = named]
                   /\ np_log' = << first,
                                   Call("Name", -1, inp.worksheet_name) >>
                   /\ np_pc' = "raised"
                   /\ np_err' = "IndexError"
              ELSE /\ books' = [books EXCEPT
                                  ![wb] = SetCols(named, idx, NCols(inp))]
                   /\ np_log' = << first,
                                   Call("Name", -1, inp.worksheet_name),
                                   Call("Cols", -1, NCols(inp)) >>
                   /\ np_pc' = "loop"
                   /\ np_err' = ""
           /\ np_hist' = [np_hist EXCEPT ![wb] = @ + 1]
    /\ np_in' = inp
    /\ col_idx' = 0
    /\ np_calls' = np_calls + 1
    /\ np_before' = books
    /\ UNCHANGED np_template
    /\ UNCHANGED <<mplVars, gVars, hVars>>

\* a call with arguments from `inputs`, on a session that has seen fewer than
\* `maxcalls` calls; calls do not overlap (section 5: single-threaded)
numpy_to_origin_call(inputs, maxcalls) ==
    /\ np_pc \in {"idle", "done", "raised"}
    /\ np_calls < maxcalls
    /\ \E inp \in inputs : numpy_to_origin_enter(inp)

\* the metadata writes of lines 472-477 for column j, in order
MetaWrites(inp, j) ==
    (IF HasEntry(inp.long_names, j)
     THEN << Call("LongName", j, inp.long_names.list[j + 1]) >> ELSE << >>)
    \o (IF HasEntry(inp.units, j)
        THEN << Call("Units", j, inp.units.list[j + 1]) >> ELSE << >>)
    \o (IF HasEntry(inp.comments, j)
        THEN << Call("Comments", j, inp.comments.list[j + 1]) >> ELSE << >>)

\* the column after the writes of lines 472-477
WithMeta(col, inp, j) ==
    [col EXCEPT
        !.LongName = IF HasEntry(inp.long_names, j)
                     THEN inp.long_names.list[j + 1] ELSE @,
        !.Units    = IF HasEntry(inp.units, j)
                     THEN inp.units.list[j + 1] ELSE @,
        !.Comments = IF HasEntry(inp.comments, j)
                     THEN inp.comments.list[j + 1] ELSE @]

\* lines 469-510: one iteration of the loop over the columns
numpy_to_origin_column ==
    /\ np_pc = "loop"
    /\ col_idx < NCols(np_in)
    /\ LET j      == col_idx
           wb     == np_in.workbook_name
           sheets == books[wb]
           ws     == layer_idx + 1
           typed  == HasEntry(np_in.types, j)
           col1   == WithMeta(sheets[ws].cols[j + 1], np_in, j)
           meta   == [sheets EXCEPT ![ws].cols[j + 1] = col1]
       IN  IF typed /\ TypeLookupRaises(np_in.types.list[j + 1])
           THEN \* line 490 raises KeyError: col.Type is not assigned
                /\ books' = [books EXCEPT ![wb] = meta]
                /\ np_log' = np_log \o MetaWrites(np_in, j)
                /\ np_pc' = "raised"
                /\ np_err' = "KeyError"
                /\ UNCHANGED col_idx
           ELSE LET code  == TypeCode(np_in.types.list[j + 1])
                    col2  == IF typed THEN [col1 EXCEPT !.Type = code]
                             ELSE col1
                    mt    == [sheets EXCEPT ![ws].cols[j + 1] = col2]
                    tlog  == IF typed THEN << Call("Type", j, code) >>
                             ELSE << >>
                    \* the sheet PutWorksheet resolves '[wb.Name]ws.Name' to
                    tgt   == SheetByName(mt, mt[ws].name)
                IN  /\ CASE ndim(np_in) = 2 ->
                            /\ books' = [books EXCEPT ![wb] =
                                  [mt EXCEPT ![tgt].cols[j + 1].data =
                                                 ColumnSlice(np_in, j),
                                             ![tgt].cols[j + 1].scalar =
                                                 FALSE]]
                            /\ np_log' = np_log \o MetaWrites(np_in, j)
                                  \o tlog \o << [op |-> "PutWorksheet",
                                     col |-> j, row |-> 0, sheet |-> tgt,
                                     val |-> ColumnSlice(np_in, j)] >>
                         [] ndim(np_in) = 1 ->
                            /\ books' = [books EXCEPT ![wb] =
                                  [mt EXCEPT ![tgt].cols[j + 1].data =
                                                 << Elem1(j) >>,
                                             ![tgt].cols[j + 1].scalar =
                                                 TRUE]]
                            /\ np_log' = np_log \o MetaWrites(np_in, j)
                                  \o tlog \o << [op |-> "PutWorksheet",
                                     col |-> j, row |-> 0, sheet |-> tgt,
                                     val |-> << Elem1(j) >>] >>
                         [] OTHER ->
                            /\ books' = [books EXCEPT ![wb] = mt]
                            /\ np_log' = np_log \o MetaWrites(np_in, j)
                                  \o tlog \o << Call("print", j,
                                     "only 1 and 2 dimensional arrays supported") >>
                    /\ col_idx' = col_idx + 1
                    /\ UNCHANGED <<np_pc, np_err>>
    /\ UNCHANGED <<np_in, np_created, layer_idx, np_calls, np_before, np_hist,
                   np_template>>
    /\ UNCHANGED <<mplVars, gVars, hVars>>

\* lines 513-520: the user parameter rows, then return (origin, wb, ws)
numpy_to_origin_finish ==
    /\ np_pc = "loop"
    /\ col_idx >= NCols(np_in)
    /\ \E user_defined \in {NoneList, SomeList(<< "Test Date" >>)} :
          np_log' = np_log \o
              Flatten([k \in 1..Len(user_defined.list) |->
                  << Call("Execute", -1, "wks.UserParam" \o ToString(k)),
                     Call("Execute", -1, "col(1)[" \o user_defined.list[k]
                                          \o "]") >>])
              \o (IF user_defined.given
                  THEN << Call("Execute", -1, "wks.col1.width=10") >>
                  ELSE << >>)
    /\ np_pc' = "done"
    /\ UNCHANGED <<books, np_in, np_created, layer_idx, col_idx, np_err,
                   np_calls, np_before, np_hist, np_template>>
    /\ UNCHANGED <<mplVars, gVars, hVars>>

-----------------------------------------------------------------------------
(* Properties of numpy_to_origin *)

\* the calls of np_log with the given operation
NpWrites(op) == SelectSeq(np_log, LAMBDA c : c.op = op)

\* the sheet the running call works on
NpSheet == books[np_in.workbook_name][layer_idx + 1]

\* C5 as claimed: a 3-D array causes no PutWorksheet and no other mutation of
\* the destination (page or sheet creation, rename, column count, column
\* metadata), and the unsupported dimensionality is reported.
C5_NoMutationOn3D ==
    (np_calls > 0 /\ ndim(np_in) = 3) =>
        /\ books = np_before
        /\ \A k \in 1..Len(np_log) :
              np_log[k].op \notin {"PutWorksheet", "CreatePage", "Layers.Add",
                                   "Name", "Cols", "LongName", "Units",
                                   "Comments", "Type"}
        /\ np_pc = "done" => Len(NpWrites("print")) > 0

C7_PerColumnWrites ==
    (np_calls > 0 /\ ndim(np_in) = 2) =>
        LET R    == np_in.shape[1]
            C    == np_in.shape[2]
            puts == NpWrites("PutWorksheet")
            n    == IF np_in.column_axis = 1 THEN C ELSE R
        IN  /\ Len(puts) = col_idx
            /\ \A j \in 0..(Len(puts) - 1) :
                  /\ puts[j + 1].col = j
                  /\ puts[j + 1].row = 0
                  /\ puts[j + 1].val =
                        IF np_in.column_axis = 1
                        THEN [r \in 1..R |-> Elem(r - 1, j)]
                        ELSE [c \in 1..C |-> Elem(j, c - 1)]
                  /\ NpSheet.cols[j + 1].data = puts[j + 1].val
            /\ Len(NpSheet.cols) = n
            /\ NpWrites("Cols") = << Call("Cols", -1, n) >>
            /\ np_pc = "done" => Len(puts) = n

\* C7 witness: shape (1, 2) with column_axis = 1, two writes of one value
C7_Witness ==
    /\ np_pc = "done"
    /\ np_in.shape = << 1, 2 >>
    /\ np_in.column_axis = 1
    /\ Len(NpWrites("PutWorksheet")) = 2
    /\ NpWrites("PutWorksheet")[2].val = << Elem(0, 1) >>

\* the semantic types and their codes, as the specification lists them
SemanticTypes ==
    { [name |-> << "x" >>, code |-> 3],
      [name |-> << "y" >>, code |-> 0],
      [name |-> << "x", "_", "e", "r", "r" >>, code |-> 6],
      [name |-> << "y", "_", "e", "r", "r" >>, code |-> 2],
      [name |-> << "z" >>, code |-> 5],
      [name |-> << "l", "a", "b", "e", "l" >>, code |-> 4],
      [name |-> << "i", "g", "n", "o", "r", "e" >>, code |-> 1] }

\* str spells name, in any letter case
Spells(str, name) ==
    /\ Len(str) = Len(name)
    /\ \A k \in 1..Len(str) :
          \/ str[k] = name[k]
          \/ \E h \in 1..Len(LowerLetters) :
                LowerLetters[h] = name[k] /\ UpperLetters[h] = str[k]

Recognized(str) == \E t \in SemanticTypes : Spells(str, t.name)

\* C8: a semantic-type string outside the vocabulary for column k raises
\* KeyError out of the call, and column k gets no type write; a string of the
\* vocabulary, in any letter case, is written as its fixed code.
C8_TypeLookup ==
    np_calls > 0 =>
        LET tw == NpWrites("Type")
            ty == np_in.types
        IN  /\ \A k \in 1..Len(tw) :
                  /\ ty.given /\ tw[k].col < Len(ty.list)
                  /\ \E t \in SemanticTypes :
                        /\ Spells(ty.list[tw[k].col + 1], t.name)
                        /\ tw[k].val = t.code
                        /\ NpSheet.cols[tw[k].col + 1].Type = t.code
            /\ \A j \in 0..(col_idx - 1) :
                  (ty.given /\ j < Len(ty.list)) =>
                      /\ Recognized(ty.list[j + 1])
                      /\ \E k \in 1..Len(tw) : tw[k].col = j
            /\ np_err = "KeyError" =>
                  /\ np_pc = "raised"
                  /\ ty.given /\ col_idx < Len(ty.list)
                  /\ ~Recognized(ty.list[col_idx + 1])
                  /\ \A k \in 1..Len(tw) : tw[k].col # col_idx
                  /\ NpSheet.cols[col_idx + 1].Type = DefaultCol.Type
                  /\ \A k \in 1..Len(np_log) :
                        np_log[k].op = "PutWorksheet" =>
                            np_log[k].col # col_idx

\* C8 witness: types = ['x', 'foo']: column 0 typed 3, column 1 raises
C8_Witness ==
    /\ np_err = "KeyError"
    /\ col_idx = 1
    /\ np_in.types.list = << << "x" >>, << "f", "o", "o" >> >>
    /\ NpWrites("Type") = << Call("Type", 0, 3) >>

\* C9: for each of long_names, units, comments and types, a column the loop
\* has completed got a write of that attribute exactly when the list is given
\* and longer than the column's index, the value written being the list's
\* entry for the column (for types, the entry's code); otherwise the column
\* keeps the destination's default; its data is written either way.
C9_MetadataFrame ==
    np_calls > 0 =>
        \A j \in 0..(col_idx - 1) :
            /\ \A a \in {"LongName", "Units", "Comments", "Type"} :
                  LET lst == CASE a = "LongName" -> np_in.long_names
                               [] a = "Units" -> np_in.units
                               [] a = "Comments" -> np_in.comments
                               [] OTHER -> np_in.types
                      ws  == {k \in 1..Len(np_log) :
                                 np_log[k].op = a /\ np_log[k].col = j}
                      col == NpSheet.cols[j + 1]
                      cur == CASE a = "LongName" -> << col.LongName >>
                               [] a = "Units" -> << col.Units >>
                               [] a = "Comments" -> << col.Comments >>
                               [] OTHER -> << col.Type >>
                      dfl == CASE a = "LongName" -> << DefaultCol.LongName >>
                               [] a = "Units" -> << DefaultCol.Units >>
                               [] a = "Comments" -> << DefaultCol.Comments >>
                               [] OTHER -> << DefaultCol.Type >>
                  IN  IF lst.given /\ Len(lst.list) >= j + 1
                      THEN /\ Cardinality(ws) = 1
                           /\ \A k \in ws :
                                 /\ << np_log[k].val >> = cur
                                 /\ IF a = "Type"
                                    THEN \E t \in SemanticTypes :
                                            /\ Spells(lst.list[j + 1], t.name)
                                            /\ np_log[k].val = t.code
                                    ELSE np_log[k].val = lst.list[j + 1]
                      ELSE ws = {} /\ cur = dfl
            /\ ndim(np_in) \in {1, 2} =>
                  /\ \E k \in 1..Len(np_log) :
                        np_log[k].op = "PutWorksheet" /\ np_log[k].col = j
                  /\ NpSheet.cols[j + 1].data # << >>

\* C9 witness: two columns, long_names of one entry, comments of two, no
\* units: column 1 keeps the default long name and has its data
C9_Witness ==
    /\ np_pc = "done"
    /\ col_idx = 2
    /\ np_in.long_names = MetaList("ln", 1)
    /\ np_in.comments = MetaList("cm", 2)
    /\ ~np_in.units.given
    /\ NpSheet.cols[1].LongName = "ln0"
    /\ NpSheet.cols[2].LongName = ""
    /\ NpSheet.cols[2].Comments = "cm1"
    /\ NpSheet.cols[2].data # << >>

-----------------------------------------------------------------------------
(* createGraph_multiwks: arguments *)

\* an argument that is an int or a list of ints
IntArg(n) == [isList |-> FALSE, v |-> << n >>]
ListArg(l) == [isList |-> TRUE, v |-> l]

GXCols == {IntArg(0)} \cup {ListArg(l) : l \in SeqsUpTo({0, 3}, MaxCols)}

GYCols == {IntArg(1)} \cup {ListArg([k \in 1..n |-> k]) : n \in 0..MaxCols}

\* LineOrSym: None, one string, or a list of strings
GLineOrSym ==
    {[kind |-> "None", v |-> << >>]}
    \cup {[kind |-> "str", v |-> << t >>] :
             t \in {"Line", "Sym", "Symbols", "Line+Sym"}}
    \cup {[kind |-> "list", v |-> l] :
             l \in SeqsUpTo({"Line", "Sym"}, MaxCols) \ {<< >>}}

\* worksheets is a list of nw worksheets; graph is -1 when no graph layer of
\* the name exists, else the number of plots that layer holds
GInputs ==
    [x_cols : GXCols, y_cols : GYCols, LineOrSym : GLineOrSym,
     nw : 0..MaxWks, graph : -1..MaxPrePlots]

\* lines 549-559: the normalisation of x_cols and y_cols.  "IndexError" when
\* x_cols[0] does not exist (line 553).
NormalizeRaises(inp) ==
    /\ inp.x_cols.isList /\ inp.y_cols.isList
    /\ Len(inp.x_cols.v) # Len(inp.y_cols.v)
    /\ inp.x_cols.v = << >>

NormXMutNoBroadcast(inp) ==
    IF inp.x_cols.isList THEN inp.x_cols ELSE ListArg(inp.x_cols.v)

NormX(inp) ==
    IF inp.x_cols.isList /\ inp.y_cols.isList
    THEN IF Len(inp.x_cols.v) # Len(inp.y_cols.v)
         THEN ListArg([k \in 1..Len(inp.y_cols.v) |-> inp.x_cols.v[1]])
         ELSE inp.x_cols
    ELSE IF ~inp.x_cols.isList /\ inp.y_cols.isList
    THEN ListArg([k \in 1..Len(inp.y_cols.v) |-> inp.x_cols.v[1]])
    ELSE IF ~inp.x_cols.isList /\ ~inp.y_cols.isList
    THEN ListArg(inp.x_cols.v)
    ELSE inp.x_cols

NormY(inp) ==
    IF ~inp.x_cols.isList /\ ~inp.y_cols.isList
    THEN ListArg(inp.y_cols.v) ELSE inp.y_cols

\* lines 561-564; len(y_cols) raises TypeError when y_cols is still an int
LineOrSymRaises(inp) ==
    inp.LineOrSym.kind # "list" /\ ~NormY(inp).isList

NormLineOrSym(inp) ==
    CASE inp.LineOrSym.kind = "None" ->
            [k \in 1..Len(NormY(inp).v) |-> "Line"]
      [] inp.LineOrSym.kind = "str" ->
            [k \in 1..Len(NormY(inp).v) |-> inp.LineOrSym.v[1]]
      [] OTHER -> inp.LineOrSym.v

\* lines 591-599: the plot type id given to AddPlot
PlotTypeId(los) ==
    IF los \in {"Sym", "Symbol", "Symbols"} THEN 201
    ELSE IF los = "Line+Sym" THEN 202
    ELSE 200

\* lines 604-605
BeginIndex(ci, nw) == ci * nw + 1
EndIndex(ci, nw) == BeginIndex(ci, nw) + nw - 1

-----------------------------------------------------------------------------
(* createGraph_multiwks: the call *)

GInit ==
    /\ g_pc = "idle"
    /\ g_in = [x_cols |-> IntArg(0), y_cols |-> IntArg(1),
               LineOrSym |-> [kind |-> "None", v |-> << >>],
               nw |-> 0, graph |-> -1]
    /\ g_x = << >>
    /\ g_y = IntArg(1)
    /\ g_los = << >>
    /\ g_ci = 0
    /\ g_plots = << >>
    /\ g_groups = << >>
    /\ g_log = << >>
    /\ g_err = ""
    /\ g_pre = 0

\* a plot the layer held before the call
OldPlot == [ci |-> -1, wi |-> -1, type |-> 0, x |-> -1, y |-> -1]

\* lines 539-566: find or create the graph layer, normalise the arguments
createGraph_multiwks_enter ==
    /\ g_pc = "idle"
    /\ \E inp \in GInputs :
        /\ g_in' = inp
        /\ g_pre' = IF inp.graph = -1 THEN 0 ELSE inp.graph
        /\ g_plots' = [k \in 1..(IF inp.graph = -1 THEN 0 ELSE inp.graph)
                          |-> OldPlot]
        /\ g_log' = IF inp.graph = -1 THEN << "CreatePage" >> ELSE << >>
        /\ IF NormalizeRaises(inp)
           THEN /\ g_pc' = "raised"
                /\ g_err' = "IndexError"
                /\ UNCHANGED <<g_x, g_y, g_los>>
           ELSE IF LineOrSymRaises(inp)
           THEN /\ g_pc' = "raised"
                /\ g_err' = "TypeError"
                /\ g_x' = NormX(inp).v
                /\ g_y' = NormY(inp)
                /\ UNCHANGED g_los
           ELSE /\ g_pc' = "loop"
                /\ g_x' = NormX(inp).v
                /\ g_y' = NormY(inp)
                /\ g_los' = NormLineOrSym(inp)
                /\ UNCHANGED g_err
    /\ g_ci' = 0
    /\ UNCHANGED g_groups
    /\ UNCHANGED <<mplVars, npVars, hVars>>

\* what stops the inner loop of lines 572-600 at its first worksheet:
\* y_cols[ci] (line 583) on an int or past the end, LineOrSym[ci] (line 591)
\* past the end
PlotRaises(ci) ==
    IF ~g_y.isList THEN "TypeError"
    ELSE IF ci >= Len(g_y.v) THEN "IndexError"
    ELSE IF ci >= Len(g_los) THEN "IndexError"
    ELSE ""

\* lines 571-611: one iteration of the loop over x_cols: a plot per
\* worksheet, then the grouping command
createGraph_multiwks_column ==
    /\ g_pc = "loop"
    /\ g_ci < Len(g_x)
    /\ IF g_in.nw > 0 /\ PlotRaises(g_ci) # ""
       THEN /\ g_pc' = "raised"
            /\ g_err' = PlotRaises(g_ci)
            /\ UNCHANGED <<g_ci, g_plots, g_groups>>
       ELSE /\ g_plots' = g_plots \o
                  [wi \in 1..g_in.nw |->
                      [ci |-> g_ci, wi |-> wi - 1,
                       type |-> PlotTypeId(g_los[g_ci + 1]),
                       x |-> g_x[g_ci + 1], y |-> g_y.v[g_ci + 1]]]
            /\ g_groups' = Append(g_groups,
                  [ci |-> g_ci, begin |-> BeginIndex(g_ci, g_in.nw),
                   end |-> EndIndex(g_ci, g_in.nw)])
            /\ g_ci' = g_ci + 1
            /\ UNCHANGED <<g_pc, g_err>>
    /\ UNCHANGED <<g_in, g_x, g_y, g_los, g_log, g_pre>>
    /\ UNCHANGED <<mplVars, npVars, hVars>>

\* lines 613-633: legend, axis scales and titles, rescale, page size.
\* x_scale / y_scale are None, "linear" or "log"; x_label / y_label are both
\* given or both None here.  graph_page is not defined in the function: a
\* figsize raises NameError.
createGraph_multiwks_finish ==
    /\ g_pc = "loop"
    /\ g_ci >= Len(g_x)
    /\ \E scales \in {<< "None", "None" >>, << "linear", "log" >>,
                      << "log", "linear" >>},
          labels \in BOOLEAN, auto_rescale \in BOOLEAN, figsize \in BOOLEAN :
        /\ g_log' = g_log \o << "legend -r" >>
                    \o set_axis_scale("x", scales[1])
                    \o set_axis_scale("y", scales[2])
                    \o (IF labels THEN << "label -xb", "label -yl" >>
                        ELSE << >>)
                    \o (IF auto_rescale THEN << "Rescale" >> ELSE << >>)
        /\ IF figsize
           THEN g_pc' = "raised" /\ g_err' = "NameError"
           ELSE g_pc' = "done" /\ UNCHANGED g_err
    /\ UNCHANGED <<g_in, g_x, g_y, g_los, g_ci, g_plots, g_groups, g_pre>>
    /\ UNCHANGED <<mplVars, npVars, hVars>>

-----------------------------------------------------------------------------
(* Properties of createGraph_multiwks *)

\* C10 as claimed: every grouping command names exactly the plot indices of
\* the plots added for its column choice, also when the layer held plots
\* before the call; so groups are disjoint and hold only plots just added.
C10_GroupIsPlotsJustAdded ==
    \A k \in 1..Len(g_groups) :
        LET g == g_groups[k]
        IN  /\ {i \in 1..Len(g_plots) : g_plots[i].ci = g.ci}
                  = g.begin..g.end
            /\ \A h \in 1..Len(g_groups) :
                  h # k => (g.begin..g.end)
                           \cap (g_groups[h].begin..g_groups[h].end) = {}

\* the plots the call has added to the layer, in order
GNewPlots == SubSeq(g_plots, g_pre + 1, Len(g_plots))

\* C12: x_cols is broadcast from its first value when the two lists differ
\* in length, and from the integer when x_cols is an integer and y_cols a
\* list; LineOrSym is 'Line' for every series when not given and a single
\* string is repeated for every series.  Each completed column choice ci has
\* added one plot per worksheet, plot (ci, wi) with x column x_cols[ci], y
\* column y_cols[ci] and type 201 for 'Sym'/'Symbol'/'Symbols', 202 for
\* 'Line+Sym', 200 otherwise; a call that completes its loop with y_cols a
\* list has added len(y_cols) * len(worksheets) plots.
C12_NormalizedPlots ==
    LET x   == g_in.x_cols
        y   == g_in.y_cols
        los == g_in.LineOrSym
        nw  == g_in.nw
        ny  == IF y.isList THEN Len(y.v) ELSE 1
        XAt(ci) == IF ~x.isList \/ Len(x.v) # ny THEN x.v[1] ELSE x.v[ci + 1]
        YAt(ci) == IF y.isList THEN y.v[ci + 1] ELSE y.v[1]
        LosAt(ci) == CASE los.kind = "None" -> "Line"
                       [] los.kind = "str" -> los.v[1]
                       [] OTHER -> los.v[ci + 1]
        TypeOf(t) == IF t = "Sym" \/ t = "Symbol" \/ t = "Symbols" THEN 201
                     ELSE IF t = "Line+Sym" THEN 202 ELSE 200
    IN  g_pc # "idle" =>
          /\ (g_pc = "raised" /\ g_ci = 0 /\ g_err = "IndexError"
              /\ g_x = << >> /\ g_los = << >>)
             \/ /\ (x.isList /\ y.isList /\ Len(x.v) # Len(y.v))
                      => g_x = [k \in 1..Len(y.v) |-> x.v[1]]
                /\ (~x.isList /\ y.isList)
                      => g_x = [k \in 1..Len(y.v) |-> x.v[1]]
          /\ g_pc \in {"loop", "done"} =>
                /\ los.kind = "None" => g_los = [k \in 1..ny |-> "Line"]
                /\ los.kind = "str" => g_los = [k \in 1..ny |-> los.v[1]]
          /\ Len(GNewPlots) = g_ci * nw
          /\ \A ci \in 0..(g_ci - 1) : \A wi \in 0..(nw - 1) :
                GNewPlots[ci * nw + wi + 1] =
                    [ci |-> ci, wi |-> wi, type |-> TypeOf(LosAt(ci)),
                     x |-> XAt(ci), y |-> YAt(ci)]
          /\ ((g_pc = "done" \/ g_err = "NameError") /\ g_y.isList) =>
                /\ Len(g_y.v) = ny
                /\ Len(GNewPlots) = ny * nw

\* C12 witness: x_cols = [3], y_cols = [1, 2], LineOrSym = 'Sym', two
\* worksheets, on a layer that held a plot: four plots, all with x column 3
C12_Witness ==
    /\ g_pc = "done"
    /\ g_in.x_cols = ListArg(<< 3 >>)
    /\ g_in.y_cols = ListArg(<< 1, 2 >>)
    /\ g_in.LineOrSym = [kind |-> "str", v |-> << "Sym" >>]
    /\ g_in.nw = 2
    /\ g_pre = 1
    /\ Len(GNewPlots) = 4
    /\ GNewPlots[4] = [ci |-> 1, wi |-> 1, type |-> 201, x |-> 3, y |-> 2]

-----------------------------------------------------------------------------
(* get_sheets_from_book *)

\* one workbook reference: a live workbook object (CDispatch), a name
\* string, None, or a value of another type (an int, say)
HObjRefs(bk) == {[t |-> "obj", name |-> n] : n \in {m \in WbNames : bk[m] > 0}}
HStrRefs == {[t |-> "str", name |-> n] : n \in WbNames}
HRefs(bk) ==
    HObjRefs(bk) \cup HStrRefs
        \cup {[t |-> "None", name |-> ""], [t |-> "other", name |-> ""]}

\* the `workbooks` argument: one object or string, a list of references, or
\* a value that is none of str, CDispatch, list
HArgs(bk) ==
    {[t |-> "one", v |-> << e >>] : e \in HObjRefs(bk) \cup HStrRefs}
        \cup {[t |-> "list", v |-> l] : l \in SeqsUpTo(HRefs(bk), MaxWbList)}
        \cup {[t |-> "other", v |-> << >>]}

\* wb.Layers of the workbook called `name`: its worksheets in layer order
Layers(bk, name) == [k \in 1..bk[name] |-> [book |-> name, layer |-> k]]

\* line 111 evaluates `workbook_name`, which is neither a local of the
\* function nor a module global
WorkbookRaises(wb) ==
    CASE wb.t = "str"   -> "NameError"
      [] wb.t = "other" -> "AttributeError"   \* line 117, wb.Layers
      [] OTHER          -> ""

\* lines 113-116: what one pass of the loop prints before it reads wb
WorkbookPrints(wb) ==
    CASE wb.t = "other" -> << "wrong type of workbook" >>
      [] wb.t = "None"  -> << "wrong type of workbook",
                              "workbook does not exist" >>
      [] OTHER          -> << >>

HIdle ==
    /\ h_pc = "idle"
    /\ h_arg = [t |-> "other", v |-> << >>]
    /\ h_list = << >>
    /\ h_i = 1
    /\ h_out = << >>
    /\ h_ret = ""
    /\ h_log = << >>
    /\ h_err = ""

\* a session without workbooks
HInit ==
    /\ HIdle
    /\ h_books = [n \in WbNames |-> 0]

\* a session with any workbooks
HInitAny ==
    /\ HIdle
    /\ h_books \in [WbNames -> 0..MaxLayers]

\* lines 96-103
get_sheets_from_book_enter ==
    /\ h_pc = "idle"
    /\ \E a \in HArgs(h_books) :
        /\ h_arg' = a
        /\ IF a.t = "other"
           THEN /\ h_log' = << "wrong type of workbooks" >>
                /\ h_ret' = "None"
                /\ h_pc' = "done"
                /\ UNCHANGED h_list
           ELSE /\ h_list' = a.v
                /\ h_pc' = "loop"
                /\ UNCHANGED <<h_log, h_ret>>
    /\ UNCHANGED <<h_books, h_i, h_out, h_err>>
    /\ UNCHANGED <<mplVars, npVars, gVars>>

\* lines 105-118, one pass of the loop
get_sheets_from_book_workbook ==
    /\ h_pc = "loop"
    /\ h_i <= Len(h_list)
    /\ LET wb == h_list[h_i]
       IN  IF wb.t = "str"
           THEN /\ h_pc' = "raised"
                /\ h_err' = WorkbookRaises(wb)
                /\ UNCHANGED <<h_i, h_out, h_log>>
           ELSE IF WorkbookRaises(wb) # ""
           THEN /\ h_pc' = "raised"
                /\ h_err' = WorkbookRaises(wb)
                /\ h_log' = h_log \o WorkbookPrints(wb)
                /\ UNCHANGED <<h_i, h_out>>
           ELSE IF wb.t = "None"
           THEN /\ h_log' = h_log \o WorkbookPrints(wb)
                /\ h_i' = h_i + 1
                /\ UNCHANGED <<h_pc, h_err, h_out>>
           ELSE /\ h_log' = h_log \o << "Layers " \o wb.name >>
                /\ h_out' = h_out \o Layers(h_books, wb.name)
                /\ h_i' = h_i + 1
                /\ UNCHANGED <<h_pc, h_err>>
    /\ UNCHANGED <<h_books, h_arg, h_list, h_ret>>
    /\ UNCHANGED <<mplVars, npVars, gVars>>

\* lines 119-120
get_sheets_from_book_finish ==
    /\ h_pc = "loop"
    /\ h_i > Len(h_list)
    /\ h_log' = h_log \o << "Found" >>
    /\ h_ret' = "list"
    /\ h_pc' = "done"
    /\ UNCHANGED <<h_books, h_arg, h_list, h_i, h_out, h_err>>
    /\ UNCHANGED <<mplVars, npVars, gVars>>

-----------------------------------------------------------------------------
(* get_sheets_from_book: properties *)

\* C13 as claimed: a workbook object or the name of an existing workbook
\* resolves to all worksheets of that workbook in layer order, the name to
\* the same result as the object; an argument of a wrong type is reported at
\* once and the call returns without reading a workbook.
C13_ResolveSheets ==
    h_pc # "idle" =>
        /\ (h_arg.t = "one" /\ h_books[h_arg.v[1].name] > 0) =>
              /\ h_pc # "raised"
              /\ h_pc = "done" =>
                    /\ h_ret = "list"
                    /\ h_out = Layers(h_books, h_arg.v[1].name)
        /\ h_arg.t = "other" =>
              /\ h_pc = "done"
              /\ h_ret = "None"
              /\ h_out = << >>
              /\ h_log = << "wrong type of workbooks" >>

-----------------------------------------------------------------------------

MplNext ==
    \/ matplotlib_to_origin_skip
    \/ matplotlib_to_origin_enter
    \/ matplotlib_to_origin_series
    \/ matplotlib_to_origin_axes
    \/ matplotlib_to_origin_page

\* one detailed call, on a session where the workbook exists or not
NpNext ==
    \/ numpy_to_origin_call(NpInputs, 1)
    \/ numpy_to_origin_column
    \/ numpy_to_origin_finish

\* up to MaxCalls calls on one session
NpSeqNext ==
    \/ numpy_to_origin_call(NpSeqInputs, MaxCalls)
    \/ numpy_to_origin_column
    \/ numpy_to_origin_finish

GNext ==
    \/ createGraph_multiwks_enter
    \/ createGraph_multiwks_column
    \/ createGraph_multiwks_finish

HNext ==
    \/ get_sheets_from_book_enter
    \/ get_sheets_from_book_workbook
    \/ get_sheets_from_book_finish

\* matplotlib_to_origin
Init == MplInit /\ NpInitEmpty({1}) /\ GInit /\ HInit

Next == MplNext

Spec == Init /\ [][Next]_vars

\* numpy_to_origin, one call in detail
NpSpecInit == MplInit /\ NpInitAny /\ GInit /\ HInit

SpecNumpy == NpSpecInit /\ [][NpNext]_vars

\* numpy_to_origin, a sequence of calls
NpSeqInit == MplInit /\ NpInitEmpty(1..MaxNewSheets) /\ GInit /\ HInit

SpecNumpySeq == NpSeqInit /\ [][NpSeqNext]_vars

\* createGraph_multiwks
GSpecInit == MplInit /\ NpInitEmpty({1}) /\ GInit /\ HInit

SpecGraph == GSpecInit /\ [][GNext]_vars

\* get_sheets_from_book
HSpecInit == MplInit /\ NpInitEmpty({1}) /\ GInit /\ HInitAny

SpecSheets == HSpecInit /\ [][HNext]_vars

====
